---------------------------- MODULE Spec2Model ----------------------------
(***************************************************************************)
(* Model of 0x00-personal_data/filtered_logger.py: the redaction function  *)
(* filter_datum, the RedactingFormatter built on it, the process-wide      *)
(* logger that get_logger configures and the row loop of main.             *)
(*                                                                         *)
(* A Python str is modelled as a sequence of one-character strings, so     *)
(* that the regular expression of filter_datum is computed character by    *)
(* character.                                                              *)
(***************************************************************************)
EXTENDS Naturals, Sequences, FiniteSets

(***************************************************************************)
(* Bounds of the exploration.                                              *)
(***************************************************************************)
MaxPieces == 4

MaxFields == 2

MaxFormatters == 2

MaxFormatCalls == 2

MaxCalls == 2

MaxInfo == 2

MaxRows == 2

(***************************************************************************)
(* Characters.                                                             *)
(***************************************************************************)
NL == "\n"

EQ == "="

SP == " "

(***************************************************************************)
(* String helpers (str slicing, str.startswith, the `in` operator).        *)
(***************************************************************************)
StartsWithAt(s, p, i) ==
    /\ i >= 1
    /\ i + Len(p) <= Len(s) + 1
    /\ \A k \in 1..Len(p) : s[i + k - 1] = p[k]

From(s, i) == IF i > Len(s) THEN <<>> ELSE SubSeq(s, i, Len(s))

EndsWith(s, p) == Len(p) <= Len(s) /\ From(s, Len(s) - Len(p) + 1) = p

Range(f) == {f[i] : i \in DOMAIN f}

RECURSIVE Concat(_)
Concat(ss) == IF ss = <<>> THEN <<>> ELSE Head(ss) \o Concat(Tail(ss))

Contains(s, p) == \E i \in 1..(Len(s) + 1) : StartsWithAt(s, p, i)

(***************************************************************************)
(* re.sub(f'{f}=.*?{separator}', f'{f}={redaction}{separator}', message)   *)
(* for a field name and a separator without regular-expression             *)
(* metacharacters and a redaction without backslashes.                     *)
(*                                                                         *)
(* LazyEnd: the lazy `.*?{separator}` tried from position j: the first     *)
(* position at or after j where the separator occurs, provided no line     *)
(* break lies before it (`.` matches any character except a line break).   *)
(* The result is the position after the match, or 0 when there is none.    *)
(***************************************************************************)
\* A variant that also lets the end of the string terminate the value.
RECURSIVE LazyEnd_OrEndOfString(_, _, _)
LazyEnd_OrEndOfString(s, separator, j) ==
    IF StartsWithAt(s, separator, j) THEN j + Len(separator)
    ELSE IF j > Len(s) THEN j
    ELSE IF s[j] = NL THEN 0
    ELSE LazyEnd_OrEndOfString(s, separator, j + 1)

RECURSIVE LazyEnd(_, _, _)
LazyEnd(s, separator, j) ==
    IF StartsWithAt(s, separator, j) THEN j + Len(separator)
    ELSE IF j > Len(s) THEN 0
    ELSE IF s[j] = NL THEN 0
    ELSE LazyEnd(s, separator, j + 1)

\* A variant whose pattern lacks the '=': f'{f}.*?{separator}'.
MatchEnd_NoEquals(s, f, separator, i) ==
    IF StartsWithAt(s, f, i) /\ f # <<>>
    THEN LazyEnd(s, separator, i + Len(f))
    ELSE 0

\* The position after the match of `f=.*?separator` that starts at i, or 0.
MatchEnd(s, f, separator, i) ==
    IF StartsWithAt(s, f \o <<EQ>>, i)
    THEN LazyEnd(s, separator, i + Len(f) + 1)
    ELSE 0

\* A variant that does not put the separator back: f'{f}={redaction}'.
Repl_NoSeparator(f, redaction, separator) == f \o <<EQ>> \o redaction

\* The replacement template f'{f}={redaction}{separator}'.
Repl(f, redaction, separator) == f \o <<EQ>> \o redaction \o separator

\* re.sub from position i on: the leftmost match is replaced and the scan
\* goes on after it; a character no match starts at is copied.
RECURSIVE SubFrom(_, _, _, _, _)
SubFrom(f, redaction, separator, s, i) ==
    IF i > Len(s) THEN <<>>
    ELSE LET e == MatchEnd(s, f, separator, i)
         IN  IF e > 0
             THEN Repl(f, redaction, separator)
                      \o SubFrom(f, redaction, separator, s, e)
             ELSE <<s[i]>> \o SubFrom(f, redaction, separator, s, i + 1)

re_sub(f, redaction, separator, message) ==
    SubFrom(f, redaction, separator, message, 1)

\* A variant that returns inside the loop, after the first field.
filter_datum_ReturnInLoop(fields, redaction, message, separator) ==
    IF fields = <<>> THEN message
    ELSE re_sub(Head(fields), redaction, separator, message)

\* filter_datum: one re.sub per field, in the order of the list, each on the
\* result of the one before.
RECURSIVE filter_datum(_, _, _, _)
filter_datum(fields, redaction, message, separator) ==
    IF fields = <<>> THEN message
    ELSE filter_datum(Tail(fields), redaction,
                      re_sub(Head(fields), redaction, separator, message),
                      separator)

(***************************************************************************)
(* PII_FIELDS = ("name", "email", "phone", "ssn", "password")              *)
(***************************************************************************)
S_name == <<"n", "a", "m", "e">>

S_email == <<"e", "m", "a", "i", "l">>

S_phone == <<"p", "h", "o", "n", "e">>

S_ssn == <<"s", "s", "n">>

S_password == <<"p", "a", "s", "s", "w", "o", "r", "d">>

PII_FIELDS == <<S_name, S_email, S_phone, S_ssn, S_password>>

\* The redaction and the separator that RedactingFormatter.format passes.
XXX == <<"X", "X", "X">>

FormatSeparator == <<SP>>

(***************************************************************************)
(* RedactingFormatter.  A log record is [msg, exc_text]: the message and   *)
(* the text of an attached exception (empty when there is none).           *)
(***************************************************************************)
\* super().format(record) of a logging.Formatter built without arguments,
\* for a record without arguments: the format is '%(message)s', and the
\* exception text follows the message on a new line.
Formatter_format(record) ==
    IF record.exc_text = <<>> THEN record.msg
    ELSE IF record.msg # <<>> /\ record.msg[Len(record.msg)] = NL
         THEN record.msg \o record.exc_text
         ELSE record.msg \o <<NL>> \o record.exc_text

\* RedactingFormatter.__init__: the object keeps the list it is given.
RedactingFormatter(fs) == [fields |-> fs]

\* A variant that redacts PII_FIELDS whatever list the object was given.
format_PIIFields(self, record) ==
    filter_datum(PII_FIELDS, XXX, Formatter_format(record), FormatSeparator)

\* RedactingFormatter.format
format(self, record) ==
    filter_datum(self.fields, XXX, Formatter_format(record), FormatSeparator)

(***************************************************************************)
(* The levels of the logging module.                                       *)
(***************************************************************************)
NOTSET == 0

INFO == 20

WARNING == 30

\* log_message = ' '.join([f"{key}={value}" for key, value in row.items()])
RECURSIVE log_message(_)
log_message(row) ==
    IF row = <<>> THEN <<>>
    ELSE IF Len(row) = 1 THEN row[1].key \o <<EQ>> \o row[1].value
    ELSE row[1].key \o <<EQ>> \o row[1].value \o <<SP>> \o log_message(Tail(row))

(***************************************************************************)
(* Inputs of the calls of filter_datum that are explored.  A message is a  *)
(* concatenation of at most MaxPieces pieces.                              *)
(***************************************************************************)
RECURSIVE SeqsUpTo(_, _)
SeqsUpTo(S, n) ==
    IF n = 0 THEN {<<>>}
    ELSE LET shorter == SeqsUpTo(S, n - 1)
         IN  shorter \cup {Append(s, x) : s \in shorter, x \in S}

Pieces == {<<"a", EQ>>, <<"b", EQ>>, <<"b">>, <<SP>>, <<NL>>}

Messages == {Concat(ps) : ps \in SeqsUpTo(Pieces, MaxPieces)}

FieldNames == {<<"a">>, <<"b">>}

FieldLists == SeqsUpTo(FieldNames, MaxFields)

Redactions == {<<"X">>, <<"X", SP>>, <<"b", EQ>>}

Separators == {<<SP>>, <<SP, SP>>}

\* Messages and field lists for the calls that the formatter makes: the
\* fields come from PII_FIELDS, the redaction is "XXX", the separator " ".
PIIPieces == {S_name \o <<EQ>>, S_password \o <<EQ>>,
              XXX, <<"u">>, <<SP>>, <<NL>>}

PIIMessages == {Concat(ps) : ps \in SeqsUpTo(PIIPieces, MaxPieces)}

PIIFieldLists ==
    SeqsUpTo({S_name, S_password}, MaxFields) \cup {PII_FIELDS}

(***************************************************************************)
(* Inputs of the formatter and of the program.                             *)
(***************************************************************************)
S_Bob == <<"B", "o", "b">>

S_hunter2 == <<"h", "u", "n", "t", "e", "r", "2">>

S_id == <<"i", "d">>

\* "name=Bob password=hunter2 "
NameBobPasswordHunter2 ==
    S_name \o <<EQ>> \o S_Bob \o <<SP>> \o S_password \o <<EQ>> \o S_hunter2 \o <<SP>>

RecordMsgs ==
    {<<>>,
     NameBobPasswordHunter2,
     S_password \o <<EQ>> \o S_hunter2,
     S_password \o <<EQ>> \o S_hunter2 \o <<SP>> \o S_name \o <<EQ>> \o S_Bob}

Records == [msg : RecordMsgs, exc_text : {<<>>, S_name \o <<EQ, "E", SP>>}]

FormatterFieldLists == {<<S_password>>, <<S_name, S_password>>, PII_FIELDS}

\* What callers other than main log through the logger.
InfoMsgs == {NameBobPasswordHunter2, S_id \o <<EQ, "7">>}

\* The result sets of SELECT * FROM users: every row has the columns of the
\* table, in the order of the table; the values of a row differ.
Schemas == {<<S_id, S_name>>, <<S_name, S_id>>, <<S_password>>,
            <<S_name, S_password>>}

Values == {<<"1">>, <<"2">>}

RowsOf(schema) ==
    {[c \in 1..Len(schema) |-> [key |-> schema[c], value |-> v[c]]] :
        v \in {w \in [1..Len(schema) -> Values] :
                  \A c, d \in 1..Len(schema) : w[c] = w[d] => c = d}}

Tables == UNION {SeqsUpTo(RowsOf(schema), MaxRows) : schema \in Schemas}

\* The other orders of a list.
Permutations(l) ==
    {p \in [1..Len(l) -> Range(l)] :
        \E b \in [1..Len(l) -> 1..Len(l)] :
            /\ \A i, j \in 1..Len(l) : b[i] = b[j] => i = j
            /\ \A i \in 1..Len(l) : p[i] = l[b[i]]}

VARIABLES
    \* one caller of filter_datum
    fields, redaction, message, separator,  \* the arguments
    result,                                 \* what the call returned
    fields2, message2, result2,             \* a second call and its result
    fpc,                                    \* where the caller is
    \* RedactingFormatter objects and their callers
    formatters,     \* the objects constructed so far
    ctorFields,     \* the list each was constructed with (history)
    record,         \* the record of the last format call
    who,            \* the object of the last format call
    ret,            \* what the last format call returned
    nformat,        \* the number of format calls so far
    \* the logger "user_data" of the process
    handlers,       \* its handlers, each with its formatter
    level,          \* its level
    propagate,      \* its propagate flag
    sink,           \* the stream: the lines written, each with its level
    origin,         \* for each line of the sink, the row it was made from (history)
    calls,          \* the number of get_logger calls so far (history)
    infoCalls,      \* the number of logger.info calls made outside main
    lastInfo,       \* of the last logger.info: <<lines delivered, calls>> (history)
    \* main
    pc, db, cursor, rows,
    nextRow,        \* the index of the row the loop handles next
    callsAtStart,   \* the number of get_logger calls before main (history)
    mainLines       \* the lines main handed to the sink (history)

filterVars == <<fields, redaction, message, separator, result,
                fields2, message2, result2, fpc>>

formatterVars == <<formatters, ctorFields, record, who, ret, nformat>>

loggerVars == <<handlers, level, propagate, sink, origin, calls, infoCalls,
                lastInfo>>

mainVars == <<pc, db, cursor, rows, nextRow, callsAtStart, mainLines>>

vars == <<filterVars, formatterVars, loggerVars, mainVars>>

FilterIdle ==
    /\ fields = <<>>
    /\ redaction = <<>>
    /\ message = <<>>
    /\ separator = <<>>
    /\ result = <<>>
    /\ fields2 = <<>>
    /\ message2 = <<>>
    /\ result2 = <<>>
    /\ fpc = "none"

FormatterIdle ==
    /\ formatters = <<>>
    /\ ctorFields = <<>>
    /\ record = [msg |-> <<>>, exc_text |-> <<>>]
    /\ who = 0
    /\ ret = <<>>
    /\ nformat = 0

\* The process at its start: logging.getLogger("user_data") would create a
\* logger without handlers, at level NOTSET, that propagates.
ProgramInit ==
    /\ handlers = <<>>
    /\ level = NOTSET
    /\ propagate = TRUE
    /\ sink = <<>>
    /\ origin = <<>>
    /\ calls = 0
    /\ infoCalls = 0
    /\ lastInfo = <<>>
    /\ pc = "idle"
    /\ db = "none"
    /\ cursor = "none"
    /\ rows = <<>>
    /\ nextRow = 0
    /\ callsAtStart = 0
    /\ mainLines = <<>>

(***************************************************************************)
(* Calls of filter_datum.                                                  *)
(***************************************************************************)
FilterInit ==
    /\ fields \in FieldLists
    /\ redaction \in Redactions
    /\ message \in Messages
    /\ separator \in Separators
    /\ result = <<>>
    /\ fields2 = <<>>
    /\ message2 = <<>>
    /\ result2 = <<>>
    /\ fpc = "args"
    /\ FormatterIdle
    /\ ProgramInit

PIIInit ==
    /\ fields \in PIIFieldLists
    /\ redaction = XXX
    /\ message \in PIIMessages
    /\ separator = FormatSeparator
    /\ result = <<>>
    /\ fields2 = <<>>
    /\ message2 = <<>>
    /\ result2 = <<>>
    /\ fpc = "args"
    /\ FormatterIdle
    /\ ProgramInit

\* result = filter_datum(fields, redaction, message, separator)
Call ==
    /\ fpc = "args"
    /\ result' = filter_datum(fields, redaction, message, separator)
    /\ fpc' = "returned"
    /\ UNCHANGED <<fields, redaction, message, separator,
                   fields2, message2, result2>>
    /\ UNCHANGED <<formatterVars, loggerVars, mainVars>>

\* the same message filtered with the list in another order
CallPermuted ==
    /\ fpc = "returned"
    /\ \E p \in Permutations(fields) \ {fields} :
        /\ fields2' = p
        /\ message2' = message
        /\ result2' = filter_datum(p, redaction, message, separator)
    /\ fpc' = "permuted"
    /\ UNCHANGED <<fields, redaction, message, separator, result>>
    /\ UNCHANGED <<formatterVars, loggerVars, mainVars>>

\* the result filtered once more
CallOnResult ==
    /\ fpc = "returned"
    /\ fields2' = fields
    /\ message2' = result
    /\ result2' = filter_datum(fields, redaction, result, separator)
    /\ fpc' = "refiltered"
    /\ UNCHANGED <<fields, redaction, message, separator, result>>
    /\ UNCHANGED <<formatterVars, loggerVars, mainVars>>

FilterNext == Call \/ CallPermuted

PIINext == Call \/ CallOnResult

SpecFilter == FilterInit /\ [][FilterNext]_vars

SpecPII == PIIInit /\ [][PIINext]_vars

(***************************************************************************)
(* RedactingFormatter objects: construction and format calls.              *)
(***************************************************************************)
FormatterInit == FilterIdle /\ FormatterIdle /\ ProgramInit

\* RedactingFormatter(fs)
NewFormatter ==
    /\ Len(formatters) < MaxFormatters
    /\ \E fs \in FormatterFieldLists :
        /\ formatters' = Append(formatters, RedactingFormatter(fs))
        /\ ctorFields' = Append(ctorFields, fs)
    /\ UNCHANGED <<record, who, ret, nformat>>
    /\ UNCHANGED <<filterVars, loggerVars, mainVars>>

\* formatters[k].format(r): the object is read, not written.
Format ==
    /\ nformat < MaxFormatCalls
    /\ \E k \in 1..Len(formatters), r \in Records :
        /\ ret' = format(formatters[k], r)
        /\ record' = r
        /\ who' = k
    /\ nformat' = nformat + 1
    /\ UNCHANGED <<formatters, ctorFields>>
    /\ UNCHANGED <<filterVars, loggerVars, mainVars>>

FormatterNext == NewFormatter \/ Format

SpecFormatter == FormatterInit /\ [][FormatterNext]_vars

(***************************************************************************)
(* The logger "user_data", get_logger and main.  The program is            *)
(* single-threaded: other callers run before main starts or after it ends. *)
(***************************************************************************)
Init == FilterIdle /\ FormatterIdle /\ ProgramInit

\* A variant that keeps the handler of the first call.
get_logger_OnceOnly ==
    /\ level' = INFO
    /\ propagate' = FALSE
    /\ handlers' = IF handlers = <<>>
                   THEN <<[formatter |-> RedactingFormatter(PII_FIELDS)]>>
                   ELSE handlers

\* A variant that sets the level to WARNING.
get_logger_LevelWarning ==
    /\ level' = WARNING
    /\ propagate' = FALSE
    /\ handlers' = Append(handlers, [formatter |-> RedactingFormatter(PII_FIELDS)])

\* get_logger(): the level, the flag, and one more StreamHandler with a new
\* RedactingFormatter(list(PII_FIELDS)).
get_logger ==
    /\ level' = INFO
    /\ propagate' = FALSE
    /\ handlers' = Append(handlers, [formatter |-> RedactingFormatter(PII_FIELDS)])

\* Logger.isEnabledFor: the level of the logger, or that of the root logger
\* (WARNING) while the logger's own is NOTSET.
isEnabledFor(lvl) == lvl >= (IF level # NOTSET THEN level ELSE WARNING)

\* What logger.info(msg) hands to the stream: one line per handler, each
\* formatted by the handler's formatter.  The root logger has no handler.
Emitted(msg) ==
    IF isEnabledFor(INFO)
    THEN [k \in 1..Len(handlers) |->
             [levelno |-> INFO,
              line |-> format(handlers[k].formatter,
                              [msg |-> msg, exc_text |-> <<>>])]]
    ELSE <<>>

\* logger.info(msg); row is the row the message was made from, if any.
logger_info(msg, row) ==
    /\ sink' = sink \o Emitted(msg)
    /\ origin' = origin \o [k \in 1..Len(Emitted(msg)) |-> row]
    /\ lastInfo' = <<Len(Emitted(msg)), calls>>

\* get_logger() called by another caller than main
GetLogger ==
    /\ pc \in {"idle", "done"}
    /\ calls < MaxCalls
    /\ get_logger
    /\ calls' = calls + 1
    /\ UNCHANGED <<sink, origin, infoCalls, lastInfo>>
    /\ UNCHANGED <<filterVars, formatterVars, mainVars>>

\* logging.getLogger("user_data").info(msg) called by another caller
LoggerInfo ==
    /\ pc \in {"idle", "done"}
    /\ infoCalls < MaxInfo
    /\ \E msg \in InfoMsgs : logger_info(msg, <<>>)
    /\ infoCalls' = infoCalls + 1
    /\ UNCHANGED <<handlers, level, propagate, calls>>
    /\ UNCHANGED <<filterVars, formatterVars, mainVars>>

\* main, line 71: logger = get_logger()
MainGetLogger ==
    /\ pc = "idle"
    /\ calls < MaxCalls
    /\ get_logger
    /\ calls' = calls + 1
    /\ callsAtStart' = calls
    /\ mainLines' = <<>>
    /\ pc' = "get_db"
    /\ UNCHANGED <<sink, origin, infoCalls, lastInfo>>
    /\ UNCHANGED <<db, cursor, rows, nextRow>>
    /\ UNCHANGED <<filterVars, formatterVars>>

\* main, line 74: db = get_db()
MainGetDb ==
    /\ pc = "get_db"
    /\ db' = "open"
    /\ pc' = "cursor"
    /\ UNCHANGED <<cursor, rows, nextRow, callsAtStart, mainLines>>
    /\ UNCHANGED <<filterVars, formatterVars, loggerVars>>

\* main, line 75: cursor = db.cursor(dictionary=True)
MainCursor ==
    /\ pc = "cursor"
    /\ cursor' = "open"
    /\ pc' = "execute"
    /\ UNCHANGED <<db, rows, nextRow, callsAtStart, mainLines>>
    /\ UNCHANGED <<filterVars, formatterVars, loggerVars>>

\* main, lines 78 and 81: cursor.execute("SELECT * FROM users") and
\* cursor.fetchall(): the rows of the table, whatever they are.
MainFetchall ==
    /\ pc = "execute"
    /\ rows' \in Tables
    /\ nextRow' = 1
    /\ pc' = "loop"
    /\ UNCHANGED <<db, cursor, callsAtStart, mainLines>>
    /\ UNCHANGED <<filterVars, formatterVars, loggerVars>>

\* main, lines 81 to 86: one iteration of the loop
MainLogRow ==
    /\ pc = "loop"
    /\ nextRow <= Len(rows)
    /\ logger_info(log_message(rows[nextRow]), rows[nextRow])
    /\ mainLines' = mainLines \o Emitted(log_message(rows[nextRow]))
    /\ nextRow' = nextRow + 1
    /\ UNCHANGED <<handlers, level, propagate, calls, infoCalls>>
    /\ UNCHANGED <<pc, db, cursor, rows, callsAtStart>>
    /\ UNCHANGED <<filterVars, formatterVars>>

\* main, line 89: cursor.close(), once the rows are exhausted
MainCloseCursor ==
    /\ pc = "loop"
    /\ nextRow > Len(rows)
    /\ cursor' = "closed"
    /\ pc' = "close_db"
    /\ UNCHANGED <<db, rows, nextRow, callsAtStart, mainLines>>
    /\ UNCHANGED <<filterVars, formatterVars, loggerVars>>

\* main, line 90: db.close(), and main returns
MainCloseDb ==
    /\ pc = "close_db"
    /\ db' = "closed"
    /\ pc' = "done"
    /\ UNCHANGED <<cursor, rows, nextRow, callsAtStart, mainLines>>
    /\ UNCHANGED <<filterVars, formatterVars, loggerVars>>

Next ==
    \/ GetLogger
    \/ LoggerInfo
    \/ MainGetLogger
    \/ MainGetDb
    \/ MainCursor
    \/ MainFetchall
    \/ MainLogRow
    \/ MainCloseCursor
    \/ MainCloseDb

Spec == Init /\ [][Next]_vars

(***************************************************************************)
(* The statements checked of filter_datum.                                 *)
(***************************************************************************)
Positions(s, p) == {i \in 1..(Len(s) + 1) : StartsWithAt(s, p, i)}

Max(S) == CHOOSE x \in S : \A y \in S : y <= x

HasChar(s, chars) == \E i \in 1..Len(s) : s[i] \in chars

\* Every way of reading m as segments key=value, each followed by the
\* separator, with neither '=' nor the separator inside a key or a value.
RECURSIVE Segmentations(_, _)
Segmentations(m, sep) ==
    IF m = <<>> THEN {<<>>}
    ELSE UNION {
        LET key == SubSeq(m, 1, e - 1)
            value == SubSeq(m, e + 1, p - 1)
        IN  IF /\ m[e] = EQ
               /\ p > e
               /\ ~HasChar(key, {EQ})
               /\ ~HasChar(value, {EQ})
               /\ ~Contains(key, sep)
               /\ ~Contains(value, sep)
            THEN {<<[key |-> key, value |-> value]>> \o rest :
                     rest \in Segmentations(From(m, p + Len(sep)), sep)}
            ELSE {} : e \in 1..Len(m), p \in Positions(m, sep)}

\* The segments put together again, segment i redacted when hits[i].
Rewritten(segs, red, sep, hits) ==
    Concat([i \in 1..Len(segs) |->
               IF hits[i]
               THEN segs[i].key \o <<EQ>> \o red \o sep
               ELSE segs[i].key \o <<EQ>> \o segs[i].value \o sep])

C1_Plain(segs) ==
    LET bad == {EQ} \cup Range(separator)
    IN  /\ separator # <<>>
        /\ ~HasChar(separator, {EQ})
        /\ ~HasChar(redaction, bad)
        /\ \A i \in 1..Len(fields) : ~HasChar(fields[i], bad)
        /\ \A i \in 1..Len(segs) :
               ~HasChar(segs[i].key, bad) /\ ~HasChar(segs[i].value, bad)

C3_Plain ==
    LET bad == {EQ, NL} \cup Range(separator)
    IN  /\ separator # <<>>
        /\ ~HasChar(separator, {EQ, NL})
        /\ ~HasChar(redaction, bad)
        /\ \A i \in 1..Len(fields) : ~HasChar(fields[i], bad)

TailAfterLastSeparator(m, sep) ==
    IF Positions(m, sep) = {} THEN m
    ELSE From(m, Max(Positions(m, sep)) + Len(sep))

OccursBeforeSeparator(m, f, sep) ==
    \E i \in Positions(m, f \o <<EQ>>) :
        \E j \in Positions(m, sep) : j >= i + Len(f) + 1

RECURSIVE ScanFrom(_, _, _, _, _)
ScanFrom(f, red, sep, s, i) ==
    IF i > Len(s) THEN <<>>
    ELSE LET after == {p \in Positions(s, sep) : p >= i + Len(f) + 1}
         IN  IF StartsWithAt(s, f \o <<EQ>>, i) /\ after # {}
             THEN f \o <<EQ>> \o red \o sep
                      \o ScanFrom(f, red, sep, s,
                                  (CHOOSE p \in after : \A q \in after : p <= q)
                                      + Len(sep))
             ELSE <<s[i]>> \o ScanFrom(f, red, sep, s, i + 1)

RECURSIVE ReferenceScanner(_, _, _, _)
ReferenceScanner(fs, red, m, sep) ==
    IF fs = <<>> THEN m
    ELSE ReferenceScanner(Tail(fs), red,
                          ScanFrom(Head(fs), red, sep, m, 1), sep)

\* C8: filter_datum equals the reference scanner: every span replaced runs
\* from an occurrence of field= to the first separator after it.
C8_EqualsReferenceScanner ==
    fpc = "returned" =>
        result = ReferenceScanner(fields, redaction, message, separator)
\* C9: with fields of PII_FIELDS, "XXX" and " ", filtering the result once
\* more returns it unchanged.
C9_Idempotent ==
    fpc = "refiltered" => result2 = result

\* "name=password=u " filtered for name and password, and its result once
\* more.
C9_Witness ==
    /\ fpc = "refiltered"
    /\ fields = <<S_name, S_password>>
    /\ message = S_name \o <<EQ>> \o S_password \o <<EQ, "u", SP>>
    /\ result = S_name \o <<EQ>> \o XXX \o <<SP>>
    /\ message2 = result
    /\ result2 = result

(***************************************************************************)
(* The statements checked of RedactingFormatter.                           *)
(***************************************************************************)
\* "name=Bob password=XXX "
NameBobPasswordXXX ==
    <<"n", "a", "m", "e", "=", "B", "o", "b", " ",
      "p", "a", "s", "s", "w", "o", "r", "d", "=", "X", "X", "X", " ">>

\* "name=XXX password=XXX "
NameXXXPasswordXXX ==
    <<"n", "a", "m", "e", "=", "X", "X", "X", " ",
      "p", "a", "s", "s", "w", "o", "r", "d", "=", "X", "X", "X", " ">>

\* The part of C6 that does not depend on the example: after any earlier
\* format calls, format returns filter_datum(F, "XXX", rendering, " ") for
\* the list F the object was constructed with, and every object still holds
\* that list.
C6_FormatIsFilterOfRendering ==
    /\ \A k \in 1..Len(formatters) : formatters[k].fields = ctorFields[k]
    /\ nformat > 0 =>
           ret = filter_datum(ctorFields[who], <<"X", "X", "X">>,
                              Formatter_format(record), <<" ">>)

\* C6 as stated: the above, and whatever the list, a record rendered as
\* "name=Bob password=hunter2 " is emitted as "name=Bob password=XXX ".
C6_ExampleForEveryList ==
    /\ C6_FormatIsFilterOfRendering
    /\ (nformat > 0 /\ Formatter_format(record) = NameBobPasswordHunter2)
           => ret = NameBobPasswordXXX

\* C6 as amended: the above, and a record rendered as
\* "name=Bob password=hunter2 " is emitted as "name=Bob password=XXX " by a
\* formatter constructed with ["password"], and as "name=XXX password=XXX "
\* by one constructed with list(PII_FIELDS), as get_logger does.
C6_ExampleForPasswordList ==
    /\ C6_FormatIsFilterOfRendering
    /\ (nformat > 0 /\ Formatter_format(record) = NameBobPasswordHunter2)
           => /\ ctorFields[who] = << <<"p", "a", "s", "s", "w", "o", "r", "d">> >>
                  => ret = NameBobPasswordXXX
              /\ ctorFields[who] = PII_FIELDS => ret = NameXXXPasswordXXX

\* The second format call of a formatter constructed with ["password"], on
\* the record of the example.
C6_Witness ==
    /\ nformat = 2
    /\ ctorFields[who] = <<S_password>>
    /\ record = [msg |-> NameBobPasswordHunter2, exc_text |-> <<>>]
    /\ ret = NameBobPasswordXXX

(***************************************************************************)
(* The statements checked of get_logger and main.                          *)
(***************************************************************************)
\* C2: no line of the sink made from a row holds the value of a column of
\* that row whose name is in PII_FIELDS.
C2_NoPIIValueInLog ==
    \A k \in 1..Len(sink) :
        \A c \in 1..Len(origin[k]) :
            origin[k][c].key \in Range(PII_FIELDS)
                => ~Contains(sink[k].line, origin[k][c].value)

\* The line of a row: its columns as key=value joined by " ", redacted for
\* PII_FIELDS with "XXX" and " ".
RowLine(row) ==
    LET cols == [c \in 1..Len(row) |->
                    (IF c = 1 THEN <<>> ELSE <<" ">>)
                        \o row[c].key \o <<"=">> \o row[c].value]
    IN  filter_datum(PII_FIELDS, <<"X", "X", "X">>, Concat(cols), <<" ">>)

\* One line per row handled so far, in the order of the rows, at level INFO;
\* the cursor and the connection open during the loop, the cursor closed
\* after the last row and the connection closed when main returns.
OneLinePerRow ==
    /\ pc \in {"loop", "close_db", "done"} =>
           mainLines = [k \in 1..(nextRow - 1) |->
                           [levelno |-> 20, line |-> RowLine(rows[k])]]
    /\ pc = "loop" => cursor = "open" /\ db = "open" /\ nextRow <= Len(rows) + 1
    /\ pc \in {"close_db", "done"} => nextRow = Len(rows) + 1 /\ cursor = "closed"
    /\ pc = "close_db" => db = "open"
    /\ pc = "done" => db = "closed"

\* C7 as stated: every run of main hands one line per row to the sink, in
\* order, then closes the cursor and the connection.
C7_OneLinePerRow == OneLinePerRow

\* C7 as amended: it does when get_logger was not called in the process
\* before main.
C7_OneLinePerRowFreshLogger ==
    (pc # "idle" /\ callsAtStart = 0) => OneLinePerRow

\* main, started with a fresh logger, has returned after two different rows.
C7_Witness ==
    /\ pc = "done"
    /\ callsAtStart = 0
    /\ Len(rows) = 2
    /\ rows[1] # rows[2]
    /\ Len(mainLines) = 2
    /\ mainLines[1] # mainLines[2]
    /\ db = "closed"

\* C10: after n calls of get_logger the logger carries n handlers, each
\* with a formatter for PII_FIELDS, so that a logger.info delivers n lines:
\* one line exactly when get_logger was called once.  After a call the
\* level is INFO and propagate is False.
C10_OneHandlerPerCall ==
    /\ Len(handlers) = calls
    /\ \A k \in 1..Len(handlers) : handlers[k].formatter.fields = PII_FIELDS
    /\ calls > 0 => level = 20 /\ propagate = FALSE
    /\ lastInfo # <<>> =>
           /\ lastInfo[1] = lastInfo[2]
           /\ lastInfo[1] = 1 <=> lastInfo[2] = 1

\* A logger.info after two calls of get_logger has delivered two lines.
C10_Witness ==
    /\ calls = 2
    /\ Len(handlers) = 2
    /\ lastInfo = <<2, 2>>

=============================================================================
